---------------------------- MODULE Spec2Model ----------------------------
(***************************************************************************)
(* Lightcut tree of NathanDuboisset/image_synthesis_project.               *)
(*                                                                         *)
(* Host side (src/src/lightcutViz.ts): the two tree builders, the depth    *)
(* queries and the breadth-first GPU serialisation.                        *)
(*                                                                         *)
(* Numbers.  JavaScript numbers are modelled as exact rationals <<n, d>>   *)
(* (d > 0, lowest terms); Float32Array slots are rationals rounded to a    *)
(* 24-bit significand (ToF32).  Objects live in a heap (a sequence of node *)
(* records, creation order); a reference is a heap index, null is NULL.    *)
(***************************************************************************)
EXTENDS Integers, Sequences, FiniteSets, TLC

\* ─── Bounds of the model ────────────────────────────────────────────────
\* Largest number of lights handed to a builder.
MaxLights == 3

\* Frames the call stack holds before the engine throws RangeError.  A build
\* that returns nests at most one frame per light, so the bound is never
\* reached by a recursion that ends.
StackLimit == MaxLights + 2

NULL == 0

\* ─── Rational arithmetic (JavaScript numbers) ───────────────────────────
Abs(x) == IF x < 0 THEN -x ELSE x

RECURSIVE GCD(_, _)
GCD(a, b) == IF b = 0 THEN a ELSE GCD(b, a % b)

QNorm(n, d) ==
    LET g == GCD(Abs(n), Abs(d))
        s == IF d < 0 THEN -1 ELSE 1
    IN  <<(s * n) \div g, (s * d) \div g>>

Q(i) == <<i, 1>>
QAdd(a, b) == QNorm(a[1] * b[2] + b[1] * a[2], a[2] * b[2])
QSub(a, b) == QNorm(a[1] * b[2] - b[1] * a[2], a[2] * b[2])
QMul(a, b) == QNorm(a[1] * b[1], a[2] * b[2])
QDiv(a, b) == QNorm(a[1] * b[2], a[2] * b[1])
QLt(a, b) == a[1] * b[2] < b[1] * a[2]
QLe(a, b) == a[1] * b[2] <= b[1] * a[2]
QMin(a, b) == IF QLt(b, a) THEN b ELSE a
QMax(a, b) == IF QLt(a, b) THEN b ELSE a
QVec(p) == <<Q(p[1]), Q(p[2]), Q(p[3])>>

\* ─── Inputs ─────────────────────────────────────────────────────────────
\* LightSource records (src/src/types.ts); the builders read position,
\* intensity and color only.  The choices differ in position along every
\* axis, in intensity and in color, and two of them have intensity zero; a
\* light array may hold the same choice twice (lights at one position).
Light(p, i, c) == [position |-> QVec(p), intensity |-> Q(i), color |-> QVec(c)]

LightChoices ==
    { Light(<<0, 0, 0>>, 1, <<1, 1, 1>>),
      Light(<<0, 0, 1>>, 2, <<1, 0, 0>>),
      Light(<<1, 3, 1>>, 1, <<0, 1, 0>>),
      Light(<<0, 2, 0>>, 0, <<1, 0, 0>>),
      Light(<<2, 2, 1>>, 0, <<0, 1, 1>>) }

SeqsUpTo(S, n) == UNION { [1..k -> S] : k \in 0..n }

\* ─── Helpers ────────────────────────────────────────────────────────────
vec3Min(a, b) == <<QMin(a[1], b[1]), QMin(a[2], b[2]), QMin(a[3], b[3])>>

vec3Max(a, b) == <<QMax(a[1], b[1]), QMax(a[2], b[2]), QMax(a[3], b[3])>>

vec3Dist2(a, b) ==
    LET dx == QSub(a[1], b[1])
        dy == QSub(a[2], b[2])
        dz == QSub(a[3], b[3])
    IN  QAdd(QAdd(QMul(dx, dx), QMul(dy, dy)), QMul(dz, dz))

aabbUnionMinOnly(a, b) == [min |-> vec3Min(a.min, b.min), max |-> a.max]

aabbUnion(a, b) == [min |-> vec3Min(a.min, b.min), max |-> vec3Max(a.max, b.max)]

aabbFromPoint(p) == [min |-> <<p[1], p[2], p[3]>>, max |-> <<p[1], p[2], p[3]>>]

mergeCost(nodeA, nodeB) ==
    LET posDistSq == vec3Dist2(nodeA.representative.position,
                               nodeB.representative.position)
        merged == aabbUnion(nodeA.aabb, nodeB.aabb)
        dx == QSub(merged.max[1], merged.min[1])
        dy == QSub(merged.max[2], merged.min[2])
        dz == QSub(merged.max[3], merged.min[3])
        volEstimate == QMul(QMul(dx, dy), dz)
    IN  QAdd(posDistSq, volEstimate)

\* ─── Node creation ──────────────────────────────────────────────────────
\* left and right are heap indices; index is the 0-based light index.
createLeafNodeShifted(light, index) ==
    [ aabb |-> aabbFromPoint(light.position),
      representative |-> [ position |-> light.position,
                           intensity |-> light.intensity,
                           color |-> light.color ],
      totalIntensity |-> light.intensity,
      left |-> NULL, right |-> NULL, depth |-> 0,
      lightCount |-> 1, lightIndex |-> index + 1 ]

createLeafNode(light, index) ==
    [ aabb |-> aabbFromPoint(light.position),
      representative |-> [ position |-> light.position,
                           intensity |-> light.intensity,
                           color |-> light.color ],
      totalIntensity |-> light.intensity,
      left |-> NULL, right |-> NULL, depth |-> 0,
      lightCount |-> 1, lightIndex |-> index ]

\* x || 1 of JavaScript: a zero operand is falsy.
OrOne(x) == IF x[1] = 0 THEN Q(1) ELSE x

Weighted(a, wa, b, wb) ==
    << QAdd(QMul(a[1], wa), QMul(b[1], wb)),
       QAdd(QMul(a[2], wa), QMul(b[2], wb)),
       QAdd(QMul(a[3], wa), QMul(b[3], wb)) >>

\* h is the heap the two children live in.
createInternalNodeCountOff(h, left, right) ==
    LET l == h[left]
        r == h[right]
        totalInt == QAdd(l.totalIntensity, r.totalIntensity)
        wL == QDiv(l.totalIntensity, OrOne(totalInt))
        wR == QDiv(r.totalIntensity, OrOne(totalInt))
    IN  [ aabb |-> aabbUnion(l.aabb, r.aabb),
          representative |->
            [ position |-> Weighted(l.representative.position, wL,
                                    r.representative.position, wR),
              intensity |-> totalInt,
              color |-> Weighted(l.representative.color, wL,
                                 r.representative.color, wR) ],
          totalIntensity |-> totalInt,
          left |-> left, right |-> right, depth |-> 0,
          lightCount |-> l.lightCount + 1, lightIndex |-> -1 ]

createInternalNode(h, left, right) ==
    LET l == h[left]
        r == h[right]
        aabb == aabbUnion(l.aabb, r.aabb)
        totalInt == QAdd(l.totalIntensity, r.totalIntensity)
        wL == QDiv(l.totalIntensity, OrOne(totalInt))
        wR == QDiv(r.totalIntensity, OrOne(totalInt))
    IN  [ aabb |-> aabb,
          representative |->
            [ position |-> Weighted(l.representative.position, wL,
                                    r.representative.position, wR),
              intensity |-> totalInt,
              color |-> Weighted(l.representative.color, wL,
                                 r.representative.color, wR) ],
          totalIntensity |-> totalInt,
          left |-> left, right |-> right, depth |-> 0,
          lightCount |-> l.lightCount + r.lightCount, lightIndex |-> -1 ]

\* ─── Depth assignment ───────────────────────────────────────────────────
RECURSIVE assignDepths(_, _, _)
assignDepthsFlat(h, node, depth) ==
    IF node = NULL THEN h
    ELSE LET h1 == [h EXCEPT ![node].depth = depth]
             h2 == assignDepths(h1, h[node].left, depth + 1)
         IN  assignDepths(h2, h[node].right, depth)

assignDepthsFromOne(h, node, depth) ==
    IF node = NULL THEN h
    ELSE LET h1 == [h EXCEPT ![node].depth = depth + 1]
             h2 == assignDepths(h1, h[node].left, depth + 1)
         IN  assignDepths(h2, h[node].right, depth + 1)

assignDepths(h, node, depth) ==
    IF node = NULL THEN h
    ELSE LET h1 == [h EXCEPT ![node].depth = depth]
             h2 == assignDepths(h1, h[node].left, depth + 1)
         IN  assignDepths(h2, h[node].right, depth + 1)

RECURSIVE treeMaxDepth(_, _)
treeMaxDepthZero(h, node) ==
    IF node = NULL THEN 0
    ELSE IF h[node].left = NULL /\ h[node].right = NULL THEN h[node].depth
    ELSE LET a == treeMaxDepth(h, h[node].left)
             b == treeMaxDepth(h, h[node].right)
         IN  IF a > b THEN a ELSE b

treeMaxDepth(h, node) ==
    IF node = NULL THEN -1
    ELSE IF h[node].left = NULL /\ h[node].right = NULL THEN h[node].depth
    ELSE LET a == treeMaxDepth(h, h[node].left)
             b == treeMaxDepth(h, h[node].right)
         IN  IF a > b THEN a ELSE b


\* ─── Sequence helpers (Array.prototype) ─────────────────────────────────
\* splice(k, 1) at the 1-based position k.
RemoveAt(s, k) == [i \in 1..(Len(s) - 1) |-> IF i < k THEN s[i] ELSE s[i + 1]]

\* slice(from, to) with 0-based from (inclusive) and to (exclusive).
Slice(s, from, to) == [i \in 1..(to - from) |-> s[from + i]]

\* Array.prototype.sort with the comparator a[axis] - b[axis]: a stable sort
\* (ECMAScript 2019), here by insertion from the left.
RECURSIVE InsertByAxis(_, _, _)
InsertByAxis(sorted, item, axis) ==
    IF sorted = <<>> THEN <<item>>
    ELSE LET last == sorted[Len(sorted)]
         IN  IF QLt(item.light.position[axis + 1], last.light.position[axis + 1])
             THEN InsertByAxis(SubSeq(sorted, 1, Len(sorted) - 1), item, axis)
                      \o <<last>>
             ELSE sorted \o <<item>>

RECURSIVE SortByAxis(_, _)
SortByAxis(s, axis) ==
    IF s = <<>> THEN <<>>
    ELSE InsertByAxis(SortByAxis(SubSeq(s, 1, Len(s) - 1), axis), s[Len(s)], axis)

\* ─── 1) Brute-force pairing ─────────────────────────────────────────────
\* The double loop over i < j of the work list (1-based positions here):
\* best is replaced only by a strictly smaller cost.
RECURSIVE scanPairs(_, _, _, _, _)
scanPairsLastWins(h, work, i, j, best) ==
    IF i > Len(work) THEN best
    ELSE IF j > Len(work) THEN scanPairs(h, work, i + 1, i + 2, best)
    ELSE LET cost == mergeCost(h[work[i]], h[work[j]])
         IN  scanPairs(h, work, i, j + 1,
                       IF QLe(cost, best.cost)
                       THEN [bestI |-> i, bestJ |-> j, cost |-> cost]
                       ELSE best)

scanPairs(h, work, i, j, best) ==
    IF i > Len(work) THEN best
    ELSE IF j > Len(work) THEN scanPairs(h, work, i + 1, i + 2, best)
    ELSE LET cost == mergeCost(h[work[i]], h[work[j]])
         IN  scanPairs(h, work, i, j + 1,
                       IF QLt(cost, best.cost)
                       THEN [bestI |-> i, bestJ |-> j, cost |-> cost]
                       ELSE best)

\* The choice among pairs of equal cost depends on how many nodes have been
\* created so far.
bestPairByAllocation(h, work) ==
    LET first == [bestI |-> 1, bestJ |-> 2,
                  cost |-> mergeCost(h[work[1]], h[work[2]])]
        pairs == { p \in (1..Len(work)) \X (1..Len(work)) : p[1] < p[2] }
        cost(p) == mergeCost(h[work[p[1]]], h[work[p[2]]])
        cheapest == { p \in pairs : \A q \in pairs : QLe(cost(p), cost(q)) }
        last == CHOOSE p \in cheapest :
                    \A q \in cheapest :
                        q[1] < p[1] \/ (q[1] = p[1] /\ q[2] <= p[2])
    IN  IF Len(h) % 2 = 0
        THEN [bestI |-> last[1], bestJ |-> last[2], cost |-> cost(last)]
        ELSE scanPairs(h, work, 1, 2, first)

bestPairFirst(h, work) ==
    [bestI |-> 1, bestJ |-> 2, cost |-> mergeCost(h[work[1]], h[work[2]])]

bestPair(h, work) ==
    scanPairs(h, work, 1, 2,
              [bestI |-> 1, bestJ |-> 2, cost |-> mergeCost(h[work[1]], h[work[2]])])

\* The body of while (nodes.length > 1): merge the best pair, remove the two
\* nodes (the higher position first) and push the merged node.
mergeStep(h, work) ==
    LET best == bestPair(h, work)
        merged == createInternalNode(h, work[best.bestI], work[best.bestJ])
    IN  [heap |-> Append(h, merged),
         nodes |-> Append(RemoveAt(RemoveAt(work, best.bestJ), best.bestI),
                          Len(h) + 1)]

\* lightSources.map((l, i) => createLeafNode(l, i)), appended to the heap.
leafNodes(ls) == [i \in 1..Len(ls) |-> createLeafNode(ls[i], i - 1)]

\* ─── 2) KD-tree ─────────────────────────────────────────────────────────
lightItems(ls) == [i \in 1..Len(ls) |-> [light |-> ls[i], index |-> i - 1]]

\* Bounding box of a non-empty subset (the fold from +/-Infinity).
RECURSIVE subsetMin(_)
subsetMin(subset) ==
    IF Len(subset) = 1 THEN subset[1].light.position
    ELSE vec3Min(subsetMin(SubSeq(subset, 1, Len(subset) - 1)),
                 subset[Len(subset)].light.position)

RECURSIVE subsetMax(_)
subsetMax(subset) ==
    IF Len(subset) = 1 THEN subset[1].light.position
    ELSE vec3Max(subsetMax(SubSeq(subset, 1, Len(subset) - 1)),
                 subset[Len(subset)].light.position)

\* Longest axis, 0-based: a later axis wins only on a strictly greater extent.
longestAxisLaterOnTie(minP, maxP) ==
    LET extents == << QSub(maxP[1], minP[1]), QSub(maxP[2], minP[2]),
                      QSub(maxP[3], minP[3]) >>
        a1 == IF QLe(extents[1], extents[2]) THEN 1 ELSE 0
    IN  IF QLe(extents[a1 + 1], extents[3]) THEN 2 ELSE a1

longestAxis(minP, maxP) ==
    LET extents == << QSub(maxP[1], minP[1]), QSub(maxP[2], minP[2]),
                      QSub(maxP[3], minP[3]) >>
        a1 == IF QLt(extents[1], extents[2]) THEN 1 ELSE 0
    IN  IF QLt(extents[a1 + 1], extents[3]) THEN 2 ELSE a1

\* Spatial partition: split at the midpoint of the axis range.
spatialSplit(subset, axis, minP, maxP) ==
    LET midpoint == QDiv(QAdd(minP[axis + 1], maxP[axis + 1]), Q(2))
        IsLeft(item) == QLt(item.light.position[axis + 1], midpoint)
        IsRight(item) == ~IsLeft(item)
    IN  [left |-> SelectSeq(subset, IsLeft), right |-> SelectSeq(subset, IsRight)]

\* Median partition: sort along the axis and split at floor(n / 2).
medianSplitDropsMid(subset, axis) ==
    LET sorted == SortByAxis(subset, axis)
        mid == Len(sorted) \div 2
    IN  [left |-> Slice(sorted, 0, mid),
         right |-> Slice(sorted, mid + 1, Len(sorted))]

medianSplitCeil(subset, axis) ==
    LET sorted == SortByAxis(subset, axis)
        mid == (Len(sorted) + 1) \div 2
    IN  [left |-> Slice(sorted, 0, mid), right |-> Slice(sorted, mid, Len(sorted))]

medianSplit(subset, axis) ==
    LET sorted == SortByAxis(subset, axis)
        mid == Len(sorted) \div 2
    IN  [left |-> Slice(sorted, 0, mid), right |-> Slice(sorted, mid, Len(sorted))]

\* The array the first call of buildRecursive is handed, after the build: in
\* median mode subset.sort has reordered it in place along the longest axis.
itemsAfterBuild(ls, useSpatial) ==
    LET items == lightItems(ls)
    IN  IF useSpatial \/ Len(items) <= 1 THEN items
        ELSE SortByAxis(items, longestAxis(subsetMin(items), subsetMax(items)))

lightSourcesSortedInPlace(ls, useSpatial) ==
    [i \in 1..Len(ls) |-> itemsAfterBuild(ls, useSpatial)[i].light]

\* lightSources after buildLightcutTreeKDTree: items is the new array made by
\* lightSources.map, so no sort and no slice acts on lightSources itself.
lightSourcesAfterKD(ls, useSpatial) == ls

\* buildRecursive: h is the heap so far, frames the call-stack room left.
\* The result holds the heap, the node returned (NULL for null) and whether
\* the call ended in RangeError (call stack exhausted).
RECURSIVE buildRecursive(_, _, _, _)
\* A leaf made for the same light by an earlier build is handed out again.
buildRecursiveCachedLeaves(subset, h, useSpatial, frames) ==
    LET cached == { n \in 1..Len(h) :
                       /\ Len(subset) = 1
                       /\ h[n].left = NULL
                       /\ h[n].right = NULL
                       /\ h[n].lightIndex = subset[1].index
                       /\ h[n].representative.position = subset[1].light.position }
    IN
    IF frames > 0 /\ cached # {}
    THEN [heap |-> h, node |-> CHOOSE n \in cached : TRUE, thrown |-> FALSE]
    ELSE
    IF frames = 0 THEN [heap |-> h, node |-> NULL, thrown |-> TRUE]
    ELSE IF Len(subset) = 0 THEN [heap |-> h, node |-> NULL, thrown |-> FALSE]
    ELSE IF Len(subset) = 1
    THEN [heap |-> Append(h, createLeafNode(subset[1].light, subset[1].index)),
          node |-> Len(h) + 1, thrown |-> FALSE]
    ELSE LET minP == subsetMin(subset)
             maxP == subsetMax(subset)
             axis == longestAxis(minP, maxP)
             parts == IF useSpatial THEN spatialSplit(subset, axis, minP, maxP)
                      ELSE medianSplit(subset, axis)
             l == buildRecursive(parts.left, h, useSpatial, frames - 1)
             r == buildRecursive(parts.right, l.heap, useSpatial, frames - 1)
         IN  IF l.thrown THEN l
             ELSE IF r.thrown THEN r
             ELSE IF l.node = NULL THEN r
             ELSE IF r.node = NULL THEN l
             ELSE [heap |-> Append(r.heap, createInternalNode(r.heap, l.node, r.node)),
                   node |-> Len(r.heap) + 1, thrown |-> FALSE]

buildRecursive(subset, h, useSpatial, frames) ==
    IF frames = 0 THEN [heap |-> h, node |-> NULL, thrown |-> TRUE]
    ELSE IF Len(subset) = 0 THEN [heap |-> h, node |-> NULL, thrown |-> FALSE]
    ELSE IF Len(subset) = 1
    THEN [heap |-> Append(h, createLeafNode(subset[1].light, subset[1].index)),
          node |-> Len(h) + 1, thrown |-> FALSE]
    ELSE LET minP == subsetMin(subset)
             maxP == subsetMax(subset)
             axis == longestAxis(minP, maxP)
             parts == IF useSpatial THEN spatialSplit(subset, axis, minP, maxP)
                      ELSE medianSplit(subset, axis)
             l == buildRecursive(parts.left, h, useSpatial, frames - 1)
             r == buildRecursive(parts.right, l.heap, useSpatial, frames - 1)
         IN  IF l.thrown THEN l
             ELSE IF r.thrown THEN r
             ELSE IF l.node = NULL THEN r
             ELSE IF r.node = NULL THEN l
             ELSE [heap |-> Append(r.heap, createInternalNode(r.heap, l.node, r.node)),
                   node |-> Len(r.heap) + 1, thrown |-> FALSE]

\* ─── Tree queries ───────────────────────────────────────────────────────
IsLeaf(h, node) == h[node].left = NULL /\ h[node].right = NULL

\* walk of getNodesAtDepth: the nodes pushed to result, in order.
RECURSIVE walk(_, _, _)
walkNoLeafStop(h, node, targetDepth) ==
    IF node = NULL THEN <<>>
    ELSE IF h[node].depth = targetDepth THEN <<node>>
    ELSE walk(h, h[node].left, targetDepth) \o walk(h, h[node].right, targetDepth)

walk(h, node, targetDepth) ==
    IF node = NULL THEN <<>>
    ELSE IF h[node].depth = targetDepth THEN <<node>>
    ELSE IF IsLeaf(h, node) THEN <<node>>
    ELSE walk(h, h[node].left, targetDepth) \o walk(h, h[node].right, targetDepth)

getNodesAtDepth(h, rt, targetDepth) ==
    IF rt = NULL THEN <<>> ELSE walk(h, rt, targetDepth)

getTreeMaxDepth(h, rt) == treeMaxDepth(h, rt)

\* The level-order loop shared by flattenTree and flattenTreeForGPU:
\* queue.shift(), push to ordered, queue the children that exist.
RECURSIVE bfsOrder(_, _, _)
bfsOrder(h, queue, ordered) ==
    IF queue = <<>> THEN ordered
    ELSE LET node == Head(queue)
             withLeft == IF h[node].left # NULL
                         THEN Append(Tail(queue), h[node].left) ELSE Tail(queue)
             withBoth == IF h[node].right # NULL
                         THEN Append(withLeft, h[node].right) ELSE withLeft
         IN  bfsOrder(h, withBoth, Append(ordered, node))

flattenTree(h, rt) == IF rt = NULL THEN <<>> ELSE bfsOrder(h, <<rt>>, <<>>)

\* ─── GPU serialization ──────────────────────────────────────────────────
FLOATS_PER_GPU_NODE == 16

RECURSIVE Pow2(_)
Pow2(k) == IF k = 0 THEN 1 ELSE 2 * Pow2(k - 1)

RECURSIVE IsPow2(_)
IsPow2(d) == d = 1 \/ (d > 1 /\ d % 2 = 0 /\ IsPow2(d \div 2))

\* 2^23: a Float32Array slot holds a 24-bit significand in [2^23, 2^24).
F32_SIGNIFICAND_MIN == 8388608

RECURSIVE f32Scale(_, _, _)
f32Scale(a, d, k) ==
    IF a >= F32_SIGNIFICAND_MIN * d THEN [a |-> a, k |-> k]
    ELSE f32Scale(2 * a, d, k + 1)

\* Store into a Float32Array slot: a number with a significand of at most 24
\* bits is kept; any other is rounded to the nearest such number, ties to
\* even (the values of the model are in the normal range).
ToF32(q) ==
    IF q[1] = 0 \/ (IsPow2(q[2]) /\ Abs(q[1]) < 2 * F32_SIGNIFICAND_MIN) THEN q
    ELSE LET sc == f32Scale(Abs(q[1]), q[2], 0)
             m0 == sc.a \div q[2]
             rem == sc.a % q[2]
             m == IF 2 * rem > q[2] \/ (2 * rem = q[2] /\ m0 % 2 = 1)
                  THEN m0 + 1 ELSE m0
         IN  QNorm((IF q[1] < 0 THEN -1 ELSE 1) * m, Pow2(sc.k))

\* indexMap.get(node): the index set last for the node, 0-based.
indexOf(ordered, node) ==
    (CHOOSE i \in 1..Len(ordered) :
        ordered[i] = node /\ \A j \in (i + 1)..Len(ordered) : ordered[j] # node) - 1

\* n.left ? indexMap.get(n.left)! : -1, and the same for n.right.
childIndexOfParent(ordered, n, child) ==
    IF child # NULL THEN indexOf(ordered, n) ELSE -1

childIndex(ordered, n, child) ==
    IF child # NULL THEN indexOf(ordered, child) ELSE -1

gpuRecordCountFirst(h, ordered, i) ==
    LET n == h[ordered[i + 1]]
    IN  << n.representative.position[1], n.representative.position[2],
           n.representative.position[3], Q(n.lightCount),
           n.representative.color[1], n.representative.color[2],
           n.representative.color[3], n.totalIntensity,
           n.aabb.min[1], n.aabb.min[2], n.aabb.min[3],
           Q(childIndex(ordered, ordered[i + 1], n.left)),
           n.aabb.max[1], n.aabb.max[2], n.aabb.max[3],
           Q(childIndex(ordered, ordered[i + 1], n.right)) >>

\* The 16 slots of the node at position i (0-based) of ordered.
gpuRecord(h, ordered, i) ==
    LET n == h[ordered[i + 1]]
    IN  << n.representative.position[1], n.representative.position[2],
           n.representative.position[3], n.totalIntensity,
           n.representative.color[1], n.representative.color[2],
           n.representative.color[3], Q(n.lightCount),
           n.aabb.min[1], n.aabb.min[2], n.aabb.min[3],
           Q(childIndex(ordered, ordered[i + 1], n.left)),
           n.aabb.max[1], n.aabb.max[2], n.aabb.max[3],
           Q(childIndex(ordered, ordered[i + 1], n.right)) >>

flattenTreeForGPU(h, rt) ==
    IF rt = NULL
    THEN [data |-> [k \in 1..FLOATS_PER_GPU_NODE |-> Q(0)], nodeCount |-> 0,
          ordered |-> <<>>]
    ELSE LET ordered == bfsOrder(h, <<rt>>, <<>>)
             nodeCount == Len(ordered)
             records == [i \in 1..nodeCount |->
                            LET rec == gpuRecord(h, ordered, i - 1)
                            IN  [o \in 1..FLOATS_PER_GPU_NODE |-> ToF32(rec[o])]]
         IN  [data |-> [k \in 1..(nodeCount * FLOATS_PER_GPU_NODE) |->
                          records[((k - 1) \div FLOATS_PER_GPU_NODE) + 1]
                                 [((k - 1) % FLOATS_PER_GPU_NODE) + 1]],
              nodeCount |-> nodeCount,
              ordered |-> ordered]

parseGPUNodeRightAsLeft(data, i) ==
    LET o == i * FLOATS_PER_GPU_NODE
    IN  [ position |-> <<data[o + 1], data[o + 2], data[o + 3]>>,
          intensity |-> data[o + 4],
          color |-> <<data[o + 5], data[o + 6], data[o + 7]>>,
          lightCount |-> data[o + 8],
          aabbMin |-> <<data[o + 9], data[o + 10], data[o + 11]>>,
          leftChild |-> data[o + 16],
          aabbMax |-> <<data[o + 13], data[o + 14], data[o + 15]>>,
          rightChild |-> data[o + 16] ]

\* struct LightcutGPUNode of the shader: the record at index i (0-based) of
\* the storage buffer, read with the WGSL layout (vec3<f32> then f32, four
\* times).
parseGPUNode(data, i) ==
    LET o == i * FLOATS_PER_GPU_NODE
    IN  [ position |-> <<data[o + 1], data[o + 2], data[o + 3]>>,
          intensity |-> data[o + 4],
          color |-> <<data[o + 5], data[o + 6], data[o + 7]>>,
          lightCount |-> data[o + 8],
          aabbMin |-> <<data[o + 9], data[o + 10], data[o + 11]>>,
          leftChild |-> data[o + 12],
          aabbMax |-> <<data[o + 13], data[o + 14], data[o + 15]>>,
          rightChild |-> data[o + 16] ]

\* ─── State ──────────────────────────────────────────────────────────────
VARIABLES
    lightsGiven, \* FALSE when the caller passes no array (undefined)
    lights,     \* the caller's light array (empty when none is passed)
    method,     \* the builder called: "brute", "median", "spatial" ("" before)
    pc,         \* "idle", "merging" (inside the brute-force loop), "done"
    heap,       \* every node object created so far
    nodes,      \* the work list of the brute-force loop (heap indices)
    root,       \* the node returned by the builder, NULL for null
    result,     \* "none", "tree", "null" or "RangeError" (the builder threw)
    query,      \* the last query made on the returned tree, with its result
    lightcutTree,      \* the storage buffer bound to the shader, as records
    lightcutNodeCount, \* debugParams.lightcutNodeCount
    maxCutSize,        \* debugParams.maxCutSize
    boundAt,           \* lightcutErrorBound at the shading point, per node
    cutIdx,            \* var cutIdx: array<u32, 32>
    cutError,          \* var cutError: array<f32, 32>
    cutSize,           \* var cutSize: u32
    iter,              \* the counter of the refinement loop
    pcCut,             \* "idle", "entry", "loop", "shade", "returned"
    radiance,          \* what computeRadianceLightcuts returns
    treeReads,         \* indices of lightcutTree read by the invocation
    written,           \* indices of cutIdx/cutError stored to by the invocation
    previous,          \* the tree returned by the build before this one
    stored,            \* TRUE once the caller has stored to a light's array
    rayTracing,        \* isRayTracingEnabled(): the rendering type selected
    isRendering,       \* let isRendering of main
    animationFrameId,  \* let animationFrameId of main (NULL for null)
    frameRequests,     \* requestAnimationFrame callbacks not yet run
    awaiting,          \* renderScene calls in flight, counted per caller
    sceneLoading,      \* scene_select handlers awaiting createScene
    mainPc             \* "closed", "initialRender", "running" (handlers registered)

builderVars == <<lightsGiven, lights, method, pc, heap, nodes, root, result, query>>

shaderVars == <<lightcutTree, lightcutNodeCount, maxCutSize, boundAt, cutIdx,
                cutError, cutSize, iter, pcCut, radiance, treeReads, written>>

callerVars == <<previous, stored>>

renderVars == <<rayTracing, isRendering, animationFrameId, frameRequests,
                awaiting, sceneLoading, mainPc>>

vars == <<builderVars, shaderVars, callerVars, renderVars>>

NoQuery == [op |-> "none"]

\* const LC_MAX_CUT of the shader, and the length of its two cut arrays.
CUT_ARRAY_SIZE == 32

LC_MAX_CUT_DOUBLED == 2 * CUT_ARRAY_SIZE

LC_MAX_CUT == 32

\* The bound of the refinement loop: iter < 256u.
MAX_REFINE_ITER == 256

\* A function-scope array of the shader before any store: zero-initialised.
ZeroArray == [c \in 0..(CUT_ARRAY_SIZE - 1) |-> 0]

NoRadiance == [kind |-> "none"]

\* No shader invocation is in progress.
ShaderIdle ==
    /\ lightcutTree = <<>>
    /\ lightcutNodeCount = 0
    /\ maxCutSize = 0
    /\ boundAt = <<>>
    /\ cutIdx = ZeroArray
    /\ cutError = ZeroArray
    /\ cutSize = 0
    /\ iter = 0
    /\ pcCut = "idle"
    /\ radiance = NoRadiance
    /\ treeReads = {}
    /\ written = {}

\* No tree has been returned before, and the caller has stored nothing.
NoPrevious == [result |-> "none"]

CallerIdle ==
    /\ previous = NoPrevious
    /\ stored = FALSE

\* The caller -> number record of renderScene calls when none is in flight.
NoneAwaiting == [c \in {"initial", "loop", "button", "select"} |-> 0]

\* The page is not open.
RenderIdle ==
    /\ rayTracing = FALSE
    /\ isRendering = FALSE
    /\ animationFrameId = NULL
    /\ frameRequests = {}
    /\ awaiting = NoneAwaiting
    /\ sceneLoading = 0
    /\ mainPc = "closed"

\* !lightSources || lightSources.length === 0
NoLights == ~lightsGiven \/ Len(lights) = 0

Init ==
    /\ lights \in SeqsUpTo(LightChoices, MaxLights)
    /\ lightsGiven \in BOOLEAN
    /\ ~lightsGiven => lights = <<>>
    /\ method = ""
    /\ pc = "idle"
    /\ heap = <<>>
    /\ nodes = <<>>
    /\ root = NULL
    /\ result = "none"
    /\ query = NoQuery
    /\ ShaderIdle
    /\ CallerIdle
    /\ RenderIdle

\* buildLightcutTreeBruteForce up to the loop: the empty and the single-light
\* returns, or the leaf list.
BruteForceStart ==
    /\ pc = "idle"
    /\ method' = "brute"
    /\ IF NoLights
       THEN /\ pc' = "done" /\ result' = "null" /\ root' = NULL
            /\ UNCHANGED <<heap, nodes>>
       ELSE IF Len(lights) = 1
       THEN /\ heap' = Append(heap, [createLeafNode(lights[1], 0) EXCEPT !.depth = 0])
            /\ root' = Len(heap) + 1
            /\ pc' = "done" /\ result' = "tree"
            /\ UNCHANGED nodes
       ELSE /\ heap' = heap \o leafNodes(lights)
            /\ nodes' = [i \in 1..Len(lights) |-> Len(heap) + i]
            /\ pc' = "merging"
            /\ UNCHANGED <<root, result>>
    /\ UNCHANGED <<lightsGiven, lights, query>>
    /\ UNCHANGED <<shaderVars, callerVars, renderVars>>

\* One iteration of while (nodes.length > 1).
BruteForceMerge ==
    /\ pc = "merging"
    /\ Len(nodes) > 1
    /\ LET step == mergeStep(heap, nodes)
       IN  /\ heap' = step.heap
           /\ nodes' = step.nodes
    /\ UNCHANGED <<lightsGiven, lights, method, pc, root, result, query>>
    /\ UNCHANGED <<shaderVars, callerVars, renderVars>>

\* The loop has ended: assignDepths(root, 0) and return.
BruteForceFinish ==
    /\ pc = "merging"
    /\ Len(nodes) = 1
    /\ root' = nodes[1]
    /\ heap' = assignDepths(heap, nodes[1], 0)
    /\ pc' = "done"
    /\ result' = "tree"
    /\ UNCHANGED <<lightsGiven, lights, method, nodes, query>>
    /\ UNCHANGED <<shaderVars, callerVars, renderVars>>

\* buildLightcutTreeKDTree(lightSources, m), the whole call.
BuildKDTree(m) ==
    /\ pc = "idle"
    /\ method' = m
    /\ pc' = "done"
    /\ IF NoLights
       THEN /\ result' = "null" /\ root' = NULL /\ UNCHANGED heap
       ELSE LET r == buildRecursive(lightItems(lights), heap, m = "spatial", StackLimit)
            IN  IF r.thrown
                THEN /\ result' = "RangeError" /\ root' = NULL /\ UNCHANGED heap
                ELSE /\ result' = IF r.node = NULL THEN "null" ELSE "tree"
                     /\ root' = r.node
                     /\ heap' = assignDepths(r.heap, r.node, 0)
    /\ lights' = lightSourcesAfterKD(lights, m = "spatial")
    /\ UNCHANGED <<lightsGiven, nodes, query>>
    /\ UNCHANGED <<shaderVars, callerVars, renderVars>>

Returned == pc = "done" /\ result \in {"tree", "null"}

QueryNodesAtDepth(D) ==
    /\ Returned
    /\ query' = [op |-> "getNodesAtDepth", arg |-> D,
                 out |-> getNodesAtDepth(heap, root, D)]
    /\ UNCHANGED <<lightsGiven, lights, method, pc, heap, nodes, root, result>>
    /\ UNCHANGED <<shaderVars, callerVars, renderVars>>

QueryTreeMaxDepth ==
    /\ Returned
    /\ query' = [op |-> "getTreeMaxDepth", out |-> getTreeMaxDepth(heap, root)]
    /\ UNCHANGED <<lightsGiven, lights, method, pc, heap, nodes, root, result>>
    /\ UNCHANGED <<shaderVars, callerVars, renderVars>>

QueryFlattenTree ==
    /\ Returned
    /\ query' = [op |-> "flattenTree", out |-> flattenTree(heap, root)]
    /\ UNCHANGED <<lightsGiven, lights, method, pc, heap, nodes, root, result>>
    /\ UNCHANGED <<shaderVars, callerVars, renderVars>>

QueryFlattenTreeForGPU ==
    /\ Returned
    /\ query' = [op |-> "flattenTreeForGPU", out |-> flattenTreeForGPU(heap, root)]
    /\ UNCHANGED <<lightsGiven, lights, method, pc, heap, nodes, root, result>>
    /\ UNCHANGED <<shaderVars, callerVars, renderVars>>

\* The example of the spec: four lights of intensity 1 on the unit square of
\* the plane y = 0, handed to the builders in any order.
SquareLights ==
    << Light(<<0, 0, 0>>, 1, <<1, 1, 1>>),
       Light(<<1, 0, 0>>, 1, <<1, 1, 1>>),
       Light(<<0, 0, 1>>, 1, <<1, 1, 1>>),
       Light(<<1, 0, 1>>, 1, <<1, 1, 1>>) >>

Orders(n) == { p \in [1..n -> 1..n] : \A i, j \in 1..n : i # j => p[i] # p[j] }

InitSquare ==
    /\ lights \in { [i \in 1..Len(SquareLights) |-> SquareLights[p[i]]] :
                        p \in Orders(Len(SquareLights)) }
    /\ lightsGiven = TRUE
    /\ method = ""
    /\ pc = "idle"
    /\ heap = <<>>
    /\ nodes = <<>>
    /\ root = NULL
    /\ result = "none"
    /\ query = NoQuery
    /\ ShaderIdle
    /\ CallerIdle
    /\ RenderIdle

Next ==
    \/ BruteForceStart
    \/ BruteForceMerge
    \/ BruteForceFinish
    \/ \E m \in {"median", "spatial"} : BuildKDTree(m)
    \/ \E D \in 0..MaxLights : QueryNodesAtDepth(D)
    \/ QueryTreeMaxDepth
    \/ QueryFlattenTree
    \/ QueryFlattenTreeForGPU

Spec == Init /\ [][Next]_vars

\* ─── The shader: computeRadianceLightcuts ───────────────────────────────
\* Bounds of the shader's inputs.
MaxErrorLevel == 2

MaxFreeBounds == 3

MaxSmallCut == 3

CombLeaves == 34

min(a, b) == IF a < b THEN a ELSE b

\* i32(x) of an f32 value: truncation toward zero.
i32(q) == IF q[1] >= 0 THEN q[1] \div q[2] ELSE -((-q[1]) \div q[2])

\* The storage buffer as the shader declares it: array<LightcutGPUNode>,
\* one record per FLOATS_PER_GPU_NODE floats uploaded.
uploadLightcutTree(data) ==
    [i \in 1..(Len(data) \div FLOATS_PER_GPU_NODE) |-> parseGPUNode(data, i - 1)]

\* lightcutErrorBound(node, worldPos) = node.intensity / distSq * diag / dist
\* with distSq >= 0.001.  It is exactly zero when the intensity is zero or
\* the box is a point (diag = 0); otherwise its value depends on the shading
\* point, and `at` holds it as a level per node (only the order of the
\* values is read by the refinement).
ZeroBound(node) == node.intensity = Q(0) \/ node.aabbMax = node.aabbMin

lightcutErrorBound(tree, at, i) ==
    IF ZeroBound(tree[i + 1]) THEN 0 ELSE at[i + 1]

\* The shading points, as the error bounds they give: every assignment of
\* levels for a tree with few clusters; for a larger one all zero, or one of
\* a few positive patterns.
BoundProfiles(tree) ==
    LET free == { i \in 1..Len(tree) : ~ZeroBound(tree[i]) }
    IN  IF Cardinality(free) <= MaxFreeBounds
        THEN { [i \in 1..Len(tree) |-> IF i \in free THEN f[i] ELSE 0] :
                   f \in [free -> 0..MaxErrorLevel] }
        ELSE { [i \in 1..Len(tree) |->
                   IF i \in free /\ k > 0 THEN 1 + ((i \div 2) % k) ELSE 0] :
                   k \in 0..MaxErrorLevel }

\* The lights with a positive intensity.
CutLightChoices == { l \in LightChoices : l.intensity # Q(0) }

\* A flattened tree with more leaves than the cut arrays have elements, in
\* the layout flattenTreeForGPU writes: CombLeaves unit lights in a row
\* along x, record 2k a cluster of the lights k.. with the light k as its
\* left child (record 2k + 1) and the rest as its right child (2k + 2).
CombNode(i) ==
    LET last == 2 * CombLeaves - 2
        isLeaf == i % 2 = 1 \/ i = last
        first == IF isLeaf /\ i # last THEN (i - 1) \div 2 ELSE i \div 2
        count == IF isLeaf THEN 1 ELSE CombLeaves - first
        lastLight == IF isLeaf THEN first ELSE CombLeaves - 1
    IN  [ position |-> <<QDiv(Q(first + lastLight), Q(2)), Q(0), Q(0)>>,
          intensity |-> Q(count),
          color |-> <<Q(1), Q(1), Q(1)>>,
          lightCount |-> Q(count),
          aabbMin |-> <<Q(first), Q(0), Q(0)>>,
          leftChild |-> IF isLeaf THEN Q(-1) ELSE Q(i + 1),
          aabbMax |-> <<Q(lastLight), Q(0), Q(0)>>,
          rightChild |-> IF isLeaf THEN Q(-1) ELSE Q(i + 2) ]

CombTree == [i \in 1..(2 * CombLeaves - 1) |-> CombNode(i - 1)]

CutSizes == (0..MaxSmallCut) \cup ((LC_MAX_CUT - 1)..(LC_MAX_CUT + 2))

\* Nothing has been built or uploaded yet; the lights have a positive
\* intensity.
InitCut ==
    /\ lights \in SeqsUpTo(CutLightChoices, MaxLights)
    /\ lightsGiven = TRUE
    /\ method = ""
    /\ pc = "idle"
    /\ heap = <<>>
    /\ nodes = <<>>
    /\ root = NULL
    /\ result = "none"
    /\ query = NoQuery
    /\ ShaderIdle
    /\ CallerIdle
    /\ RenderIdle

\* The host flattens the returned tree, uploads it (uploadLightcutTree) and
\* writes the debug uniform (updateDebugUniform) with a maximum cut size.
UploadTree ==
    /\ Returned
    /\ pcCut = "idle"
    /\ LET flat == flattenTreeForGPU(heap, root)
       IN  /\ lightcutTree' = uploadLightcutTree(flat.data)
           /\ lightcutNodeCount' = flat.nodeCount
    /\ maxCutSize' \in CutSizes
    /\ pcCut' = "uploaded"
    /\ UNCHANGED <<boundAt, cutIdx, cutError, cutSize, iter, radiance, treeReads,
                   written>>
    /\ UNCHANGED <<builderVars, callerVars, renderVars>>

\* The host uploads the comb buffer as it is.
UploadComb ==
    /\ pc = "idle"
    /\ Len(lights) = 0
    /\ pcCut = "idle"
    /\ lightcutTree' = CombTree
    /\ lightcutNodeCount' = Len(CombTree)
    /\ maxCutSize' \in CutSizes
    /\ pcCut' = "uploaded"
    /\ UNCHANGED <<boundAt, cutIdx, cutError, cutSize, iter, radiance, treeReads,
                   written>>
    /\ UNCHANGED <<builderVars, callerVars, renderVars>>

\* computeRadianceLightcuts is called for one shading point.
CutEnter ==
    /\ pcCut = "uploaded"
    /\ boundAt' \in BoundProfiles(lightcutTree)
    /\ pcCut' = "entry"
    /\ UNCHANGED <<lightcutTree, lightcutNodeCount, maxCutSize, cutIdx, cutError,
                   cutSize, iter, radiance, treeReads, written>>
    /\ UNCHANGED <<builderVars, callerVars, renderVars>>

\* let maxCut = min(debugParams.maxCutSize, LC_MAX_CUT)
maxCut == min(maxCutSize, LC_MAX_CUT)

\* The scan for the entry with the highest error: worstErr starts at -1.0
\* and an entry replaces the worst only when strictly greater.
RECURSIVE scanCut(_, _, _, _, _)
scanCut(err, size, c, worstIdx, worstErr) ==
    IF c >= size THEN worstIdx
    ELSE IF err[c] > worstErr
         THEN scanCut(err, size, c + 1, c, err[c])
         ELSE scanCut(err, size, c + 1, worstIdx, worstErr)

selectWorstLast(err, size) ==
    CHOOSE c \in 0..(size - 1) :
        \A d \in 0..(size - 1) : err[d] <= err[c] /\ (d > c => err[d] < err[c])

selectWorst(err, size) == scanCut(err, size, 0, 0, -1)

\* Where a store to element i of a cut array lands.  A store past the end
\* of a WGSL array is discarded (-1) or lands on any element of the array.
StoreTargets(i) ==
    IF i < CUT_ARRAY_SIZE THEN {i} ELSE {-1} \cup (0..(CUT_ARRAY_SIZE - 1))

CutEmptyReturnSeeds ==
    /\ pcCut = "entry"
    /\ lightcutNodeCount = 0
    /\ cutIdx' = [cutIdx EXCEPT ![0] = 0]
    /\ cutError' = [cutError EXCEPT ![0] = lightcutErrorBound(lightcutTree, boundAt, 0)]
    /\ cutSize' = 1
    /\ treeReads' = treeReads \cup {0}
    /\ written' = written \cup {0}
    /\ radiance' = [kind |-> "zero"]
    /\ pcCut' = "returned"
    /\ UNCHANGED <<lightcutTree, lightcutNodeCount, maxCutSize, boundAt, iter>>
    /\ UNCHANGED <<builderVars, callerVars, renderVars>>

\* if (nodeCount == 0u) { return vec3f(0.0); }
CutEmptyReturn ==
    /\ pcCut = "entry"
    /\ lightcutNodeCount = 0
    /\ radiance' = [kind |-> "zero"]
    /\ pcCut' = "returned"
    /\ UNCHANGED <<lightcutTree, lightcutNodeCount, maxCutSize, boundAt, cutIdx,
                   cutError, cutSize, iter, treeReads, written>>
    /\ UNCHANGED <<builderVars, callerVars, renderVars>>

\* Seed the cut with the root.
CutSeed ==
    /\ pcCut = "entry"
    /\ lightcutNodeCount # 0
    /\ cutIdx' = [cutIdx EXCEPT ![0] = 0]
    /\ cutError' = [cutError EXCEPT ![0] = lightcutErrorBound(lightcutTree, boundAt, 0)]
    /\ cutSize' = 1
    /\ treeReads' = treeReads \cup {0}
    /\ written' = written \cup {0}
    /\ iter' = 0
    /\ pcCut' = "loop"
    /\ UNCHANGED <<lightcutTree, lightcutNodeCount, maxCutSize, boundAt, radiance>>
    /\ UNCHANGED <<builderVars, callerVars, renderVars>>

\* One iteration of the refinement loop that does not break: the worst
\* entry is replaced by its left child and its right child is appended.
CutRefine ==
    /\ pcCut = "loop"
    /\ iter < MAX_REFINE_ITER
    /\ cutSize < maxCut
    /\ LET worstIdx == selectWorst(cutError, cutSize)
           nodeId == cutIdx[worstIdx]
           node == lightcutTree[nodeId + 1]
           leftI == i32(node.leftChild)
           rightI == i32(node.rightChild)
           takeLeft == leftI >= 0 /\ leftI < lightcutNodeCount
           takeRight == /\ rightI >= 0
                        /\ rightI < lightcutNodeCount
                        /\ cutSize < LC_MAX_CUT
           idx1 == [cutIdx EXCEPT ![worstIdx] = IF takeLeft THEN leftI ELSE @]
           err1 == [cutError EXCEPT ![worstIdx] =
                        IF takeLeft
                        THEN lightcutErrorBound(lightcutTree, boundAt, leftI)
                        ELSE 0]
       IN  /\ ~(leftI < 0 /\ rightI < 0)
           /\ IF takeRight
              THEN \E slot \in StoreTargets(cutSize) :
                       /\ cutIdx' = IF slot < 0 THEN idx1
                                    ELSE [idx1 EXCEPT ![slot] = rightI]
                       /\ cutError' =
                              IF slot < 0 THEN err1
                              ELSE [err1 EXCEPT ![slot] =
                                       lightcutErrorBound(lightcutTree, boundAt, rightI)]
                       /\ cutSize' = cutSize + 1
                       /\ written' = written \cup {worstIdx, cutSize}
              ELSE /\ cutIdx' = idx1
                   /\ cutError' = err1
                   /\ written' = written \cup {worstIdx}
                   /\ UNCHANGED cutSize
           /\ treeReads' = treeReads \cup {nodeId}
                               \cup (IF takeLeft THEN {leftI} ELSE {})
                               \cup (IF takeRight THEN {rightI} ELSE {})
    /\ iter' = iter + 1
    /\ UNCHANGED <<lightcutTree, lightcutNodeCount, maxCutSize, boundAt, pcCut,
                   radiance>>
    /\ UNCHANGED <<builderVars, callerVars, renderVars>>

CutRefineStopLeafOnly ==
    /\ pcCut = "loop"
    /\ iter < MAX_REFINE_ITER
    /\ cutSize < maxCut
    /\ LET nodeId == cutIdx[selectWorst(cutError, cutSize)]
           node == lightcutTree[nodeId + 1]
       IN  /\ i32(node.leftChild) < 0
           /\ i32(node.rightChild) < 0
           /\ treeReads' = treeReads \cup {nodeId}
    /\ pcCut' = "shade"
    /\ UNCHANGED <<lightcutTree, lightcutNodeCount, maxCutSize, boundAt, cutIdx,
                   cutError, cutSize, iter, radiance, written>>
    /\ UNCHANGED <<builderVars, callerVars, renderVars>>

\* The refinement loop ends: the iteration bound, the cut size reached, or
\* the worst entry is a leaf.
CutRefineStop ==
    /\ pcCut = "loop"
    /\ IF iter < MAX_REFINE_ITER /\ cutSize < maxCut
       THEN LET nodeId == cutIdx[selectWorst(cutError, cutSize)]
                node == lightcutTree[nodeId + 1]
            IN  /\ i32(node.leftChild) < 0
                /\ i32(node.rightChild) < 0
                /\ treeReads' = treeReads \cup {nodeId}
       ELSE UNCHANGED treeReads
    /\ pcCut' = "shade"
    /\ UNCHANGED <<lightcutTree, lightcutNodeCount, maxCutSize, boundAt, cutIdx,
                   cutError, cutSize, iter, radiance, written>>
    /\ UNCHANGED <<builderVars, callerVars, renderVars>>

\* Shade all representatives in the cut and return the sum.
CutShade ==
    /\ pcCut = "shade"
    /\ radiance' = [kind |-> "sum", terms |-> [c \in 1..cutSize |-> cutIdx[c - 1]]]
    /\ treeReads' = treeReads \cup { cutIdx[c] : c \in 0..(cutSize - 1) }
    /\ pcCut' = "returned"
    /\ UNCHANGED <<lightcutTree, lightcutNodeCount, maxCutSize, boundAt, cutIdx,
                   cutError, cutSize, iter, written>>
    /\ UNCHANGED <<builderVars, callerVars, renderVars>>

\* A record of the storage buffer with the given child slots: a cluster of
\* two unit lights one apart when it has a child slot set, else a light.
CraftedNode(l, r) ==
    [ position |-> <<Q(0), Q(0), Q(0)>>,
      intensity |-> IF l < 0 /\ r < 0 THEN Q(1) ELSE Q(2),
      color |-> <<Q(1), Q(1), Q(1)>>,
      lightCount |-> IF l < 0 /\ r < 0 THEN Q(1) ELSE Q(2),
      aabbMin |-> <<Q(0), Q(0), Q(0)>>,
      leftChild |-> Q(l),
      aabbMax |-> IF l < 0 /\ r < 0 THEN <<Q(0), Q(0), Q(0)>>
                  ELSE <<Q(1), Q(0), Q(0)>>,
      rightChild |-> Q(r) ]

\* Buffers no builder writes: a record that is its own left child, a record
\* with a right child only, one with a left child only, child indices past
\* the end of the buffer, and a child index pointing back to the root.
CraftedTrees ==
    { << CraftedNode(0, -1) >>,
      << CraftedNode(-1, 1), CraftedNode(-1, -1) >>,
      << CraftedNode(1, -1), CraftedNode(-1, -1) >>,
      << CraftedNode(5, 7), CraftedNode(-1, -1) >>,
      << CraftedNode(1, 2), CraftedNode(0, 2), CraftedNode(-1, -1) >> }

\* The host uploads one of these buffers.
UploadCrafted ==
    /\ pc = "idle"
    /\ Len(lights) = 0
    /\ pcCut = "idle"
    /\ \E t \in CraftedTrees :
           /\ lightcutTree' = t
           /\ lightcutNodeCount' = Len(t)
    /\ maxCutSize' \in CutSizes
    /\ pcCut' = "uploaded"
    /\ UNCHANGED <<boundAt, cutIdx, cutError, cutSize, iter, radiance, treeReads,
                   written>>
    /\ UNCHANGED <<builderVars, callerVars, renderVars>>

\* A step of a builder; the tree is built before anything is uploaded.
BuildStep ==
    /\ pcCut = "idle"
    /\ \/ BruteForceStart
       \/ BruteForceMerge
       \/ BruteForceFinish
       \/ \E m \in {"median", "spatial"} : BuildKDTree(m)

NextCut ==
    \/ BuildStep
    \/ UploadTree
    \/ UploadComb
    \/ CutEnter
    \/ CutEmptyReturn
    \/ CutSeed
    \/ CutRefine
    \/ CutRefineStop
    \/ CutShade

SpecCut == InitCut /\ [][NextCut]_vars

\* The shader on any buffer, built or not.
NextBuf ==
    \/ NextCut
    \/ UploadCrafted

SpecBuf == InitCut /\ [][NextBuf]_vars

\* The steps of one shader invocation.
CutSteps ==
    \/ CutEmptyReturn
    \/ CutSeed
    \/ CutRefine
    \/ CutRefineStop
    \/ CutShade

\* A shader invocation that has started is executed to its return.
SpecBufFair == SpecBuf /\ WF_vars(CutSteps)

\* ─── The caller between and after builds ────────────────────────────────
\* The arrays of the light that the leaf made from it holds by reference:
\* none, position and color are spread into new arrays and aabbFromPoint
\* builds min and max element by element.
leafShares(light, index) == {}

\* The heap after the caller's store light[field][c] = v on lights[i]: the
\* store is seen through every reference to that array.
storeToLight(h, ls, i, field, c, v) ==
    [n \in 1..Len(h) |->
        IF /\ IsLeaf(h, n)
           /\ h[n].lightIndex = i - 1
           /\ field \in leafShares(ls[i], i - 1)
        THEN [h[n] EXCEPT !.representative[field][c] = v]
        ELSE h[n]]

\* The caller keeps the returned tree and calls a builder again on the same
\* array (the next build request).
BuildAgain ==
    /\ pc = "done"
    /\ previous = NoPrevious
    /\ ~stored
    /\ previous' = [result |-> result, root |-> root, heap |-> heap,
                    method |-> method, lights |-> lights]
    /\ pc' = "idle"
    /\ method' = ""
    /\ nodes' = <<>>
    /\ root' = NULL
    /\ result' = "none"
    /\ query' = NoQuery
    /\ UNCHANGED <<lightsGiven, lights, heap, stored>>
    /\ UNCHANGED <<shaderVars, renderVars>>

\* The caller stores a new value to one element of the position or color
\* array of one of its lights, after the tree was returned.
CallerStore(i, field, c) ==
    /\ pc = "done"
    /\ result = "tree"
    /\ previous = NoPrevious
    /\ ~stored
    /\ i \in 1..Len(lights)
    /\ LET v == QAdd(lights[i][field][c], Q(1))
       IN  /\ lights' = [lights EXCEPT ![i][field][c] = v]
           /\ heap' = storeToLight(heap, lights, i, field, c, v)
    /\ stored' = TRUE
    /\ UNCHANGED <<lightsGiven, method, pc, nodes, root, result, query, previous>>
    /\ UNCHANGED <<shaderVars, renderVars>>

NextLife ==
    \/ Next
    \/ BuildAgain
    \/ \E i \in 1..MaxLights, field \in {"position", "color"}, c \in 1..3 :
           CallerStore(i, field, c)

SpecLife == InitCut /\ [][NextLife]_vars

\* ─── The render loop of main ────────────────────────────────────────────
\* Bounds: the requestAnimationFrame ids in use at one time, the renderScene
\* calls in flight at one time, and the scene loads in progress.
MaxFrameIds == 2

MaxAwaiting == 2

MaxLoading == 1

FrameIds == 1..MaxFrameIds

\* The number of renderScene calls that have started and not yet resolved.
InFlight(a) == a["initial"] + a["loop"] + a["button"] + a["select"]

\* The variables of main that renderLoop reads and writes.
MainState ==
    [isRendering |-> isRendering, animationFrameId |-> animationFrameId,
     awaiting |-> awaiting]

SetMainState(s) ==
    /\ isRendering' = s.isRendering
    /\ animationFrameId' = s.animationFrameId
    /\ awaiting' = s.awaiting
    /\ InFlight(s.awaiting) <= MaxAwaiting

\* renderLoop up to its await: rt is isRayTracingEnabled() at the call.
renderLoop(s, rt) ==
    IF s.isRendering THEN s
    ELSE IF ~rt
    THEN [s EXCEPT !.isRendering = TRUE, !.awaiting["loop"] = @ + 1]
    ELSE [s EXCEPT !.animationFrameId = NULL]

\* triggerRender, the render callback of the camera events.
triggerRender(s, rt) ==
    IF ~rt /\ ~s.isRendering /\ s.animationFrameId = NULL
    THEN renderLoop(s, rt)
    ELSE s

\* cancelAnimationFrame(id): the request, if still pending, is dropped.
cancelAnimationFrame(requests, id) == requests \ {id}

\* main is at its first await renderScene: initEvents has registered the
\* camera handlers, the other handlers are not registered yet.
InitRender ==
    /\ lights = <<>>
    /\ lightsGiven = TRUE
    /\ method = ""
    /\ pc = "idle"
    /\ heap = <<>>
    /\ nodes = <<>>
    /\ root = NULL
    /\ result = "none"
    /\ query = NoQuery
    /\ ShaderIdle
    /\ CallerIdle
    /\ rayTracing \in BOOLEAN
    /\ isRendering = FALSE
    /\ animationFrameId = NULL
    /\ frameRequests = {}
    /\ awaiting = [NoneAwaiting EXCEPT !["initial"] = 1]
    /\ sceneLoading = 0
    /\ mainPc = "initialRender"

\* A mouse drag or wheel event on the canvas: renderCallback().
CameraEvent ==
    /\ mainPc \in {"initialRender", "running"}
    /\ SetMainState(triggerRender(MainState, rayTracing))
    /\ UNCHANGED <<rayTracing, frameRequests, sceneLoading, mainPc>>
    /\ UNCHANGED <<builderVars, shaderVars, callerVars>>

\* The browser runs a requested animation frame callback: renderLoop().
FrameCallback(id) ==
    /\ id \in frameRequests
    /\ frameRequests' = frameRequests \ {id}
    /\ SetMainState(renderLoop(MainState, rayTracing))
    /\ UNCHANGED <<rayTracing, sceneLoading, mainPc>>
    /\ UNCHANGED <<builderVars, shaderVars, callerVars>>

\* The await renderScene of renderLoop resolves: isRendering = false and the
\* next frame is requested.
LoopRenderDone ==
    /\ awaiting["loop"] > 0
    /\ \E id \in FrameIds :
           /\ id \notin frameRequests
           /\ id # animationFrameId
           /\ \A other \in FrameIds :
                  (other \notin frameRequests /\ other # animationFrameId) => id <= other
           /\ animationFrameId' = id
           /\ frameRequests' = frameRequests \cup {id}
    /\ isRendering' = FALSE
    /\ awaiting' = [awaiting EXCEPT !["loop"] = @ - 1]
    /\ UNCHANGED <<rayTracing, sceneLoading, mainPc>>
    /\ UNCHANGED <<builderVars, shaderVars, callerVars>>

\* The initial await renderScene of main resolves: main registers the other
\* handlers and starts the render loop unless ray tracing is selected.
InitialRenderDone ==
    /\ mainPc = "initialRender"
    /\ awaiting["initial"] > 0
    /\ mainPc' = "running"
    /\ LET s == [MainState EXCEPT !.awaiting["initial"] = @ - 1]
       IN  SetMainState(IF ~rayTracing THEN renderLoop(s, rayTracing) ELSE s)
    /\ UNCHANGED <<rayTracing, frameRequests, sceneLoading>>
    /\ UNCHANGED <<builderVars, shaderVars, callerVars>>

\* The user selects another rendering type; once registered,
\* onRenderingTypeChange runs.
RenderingTypeChange ==
    /\ mainPc \in {"initialRender", "running"}
    /\ rayTracing' = ~rayTracing
    /\ IF mainPc = "running" /\ ~rayTracing' /\ animationFrameId = NULL
       THEN /\ SetMainState(renderLoop(MainState, rayTracing'))
            /\ UNCHANGED frameRequests
       ELSE IF mainPc = "running" /\ rayTracing' /\ animationFrameId # NULL
       THEN /\ frameRequests' = cancelAnimationFrame(frameRequests, animationFrameId)
            /\ animationFrameId' = NULL
            /\ UNCHANGED <<isRendering, awaiting>>
       ELSE UNCHANGED <<isRendering, animationFrameId, awaiting, frameRequests>>
    /\ UNCHANGED <<sceneLoading, mainPc>>
    /\ UNCHANGED <<builderVars, shaderVars, callerVars>>

\* A click on render_button, up to the await.
RenderButtonClick ==
    /\ mainPc = "running"
    /\ IF ~isRendering
       THEN SetMainState([MainState EXCEPT !.isRendering = TRUE,
                                           !.awaiting["button"] = @ + 1])
       ELSE UNCHANGED <<isRendering, animationFrameId, awaiting>>
    /\ UNCHANGED <<rayTracing, frameRequests, sceneLoading, mainPc>>
    /\ UNCHANGED <<builderVars, shaderVars, callerVars>>

\* The await renderScene of the button handler resolves.
ButtonRenderDone ==
    /\ awaiting["button"] > 0
    /\ isRendering' = FALSE
    /\ awaiting' = [awaiting EXCEPT !["button"] = @ - 1]
    /\ UNCHANGED <<rayTracing, animationFrameId, frameRequests, sceneLoading, mainPc>>
    /\ UNCHANGED <<builderVars, shaderVars, callerVars>>

\* A change of scene_select, up to await createScene.
SceneSelectChange ==
    /\ mainPc = "running"
    /\ sceneLoading < MaxLoading
    /\ IF animationFrameId # NULL
       THEN /\ frameRequests' = cancelAnimationFrame(frameRequests, animationFrameId)
            /\ animationFrameId' = NULL
       ELSE UNCHANGED <<frameRequests, animationFrameId>>
    /\ sceneLoading' = sceneLoading + 1
    /\ UNCHANGED <<rayTracing, isRendering, awaiting, mainPc>>
    /\ UNCHANGED <<builderVars, shaderVars, callerVars>>

\* createScene resolves: initGPUBuffers, then renderScene is called.
SceneCreated ==
    /\ sceneLoading > 0
    /\ sceneLoading' = sceneLoading - 1
    /\ SetMainState([MainState EXCEPT !.awaiting["select"] = @ + 1])
    /\ UNCHANGED <<rayTracing, frameRequests, mainPc>>
    /\ UNCHANGED <<builderVars, shaderVars, callerVars>>

\* createScene rejects: the handler logs the error and ends.
SceneLoadFailed ==
    /\ sceneLoading > 0
    /\ sceneLoading' = sceneLoading - 1
    /\ UNCHANGED <<rayTracing, isRendering, animationFrameId, frameRequests,
                   awaiting, mainPc>>
    /\ UNCHANGED <<builderVars, shaderVars, callerVars>>

\* The await renderScene of the scene_select handler resolves.
SelectRenderDone ==
    /\ awaiting["select"] > 0
    /\ LET s == [MainState EXCEPT !.awaiting["select"] = @ - 1]
       IN  SetMainState(IF ~rayTracing THEN renderLoop(s, rayTracing) ELSE s)
    /\ UNCHANGED <<rayTracing, frameRequests, sceneLoading, mainPc>>
    /\ UNCHANGED <<builderVars, shaderVars, callerVars>>

\* A click on a tab: the loop is stopped when leaving the playground and
\* started again when coming back.
TabClick(playground) ==
    /\ mainPc = "running"
    /\ IF ~playground
       THEN IF animationFrameId # NULL
            THEN /\ frameRequests' = cancelAnimationFrame(frameRequests, animationFrameId)
                 /\ animationFrameId' = NULL
                 /\ UNCHANGED <<isRendering, awaiting>>
            ELSE UNCHANGED <<isRendering, animationFrameId, awaiting, frameRequests>>
       ELSE IF ~rayTracing /\ animationFrameId = NULL
            THEN /\ SetMainState(renderLoop(MainState, rayTracing))
                 /\ UNCHANGED frameRequests
            ELSE UNCHANGED <<isRendering, animationFrameId, awaiting, frameRequests>>
    /\ UNCHANGED <<rayTracing, sceneLoading, mainPc>>
    /\ UNCHANGED <<builderVars, shaderVars, callerVars>>

NextRender ==
    \/ CameraEvent
    \/ \E id \in FrameIds : FrameCallback(id)
    \/ LoopRenderDone
    \/ InitialRenderDone
    \/ RenderingTypeChange
    \/ RenderButtonClick
    \/ ButtonRenderDone
    \/ SceneSelectChange
    \/ SceneCreated
    \/ SceneLoadFailed
    \/ SelectRenderDone
    \/ \E playground \in BOOLEAN : TabClick(playground)

SpecRender == InitRender /\ [][NextRender]_vars

\* ─── Vocabulary of the properties ───────────────────────────────────────
\* A builder has returned a tree.
Built == pc = "done" /\ result = "tree"

RECURSIVE Descendants(_, _)
Descendants(h, n) ==
    IF n = NULL THEN {}
    ELSE {n} \cup Descendants(h, h[n].left) \cup Descendants(h, h[n].right)

LeavesUnder(h, n) == { x \in Descendants(h, n) : IsLeaf(h, x) }

\* Numbers of leaves and of internal nodes met by a traversal from n (a node
\* reached twice is counted twice).
RECURSIVE LeafVisits(_, _)
LeafVisits(h, n) ==
    IF n = NULL THEN 0
    ELSE IF IsLeaf(h, n) THEN 1
    ELSE LeafVisits(h, h[n].left) + LeafVisits(h, h[n].right)

RECURSIVE InternalVisits(_, _)
InternalVisits(h, n) ==
    IF n = NULL THEN 0
    ELSE IF IsLeaf(h, n) THEN 0
    ELSE 1 + InternalVisits(h, h[n].left) + InternalVisits(h, h[n].right)

RECURSIVE SumIntensity(_)
SumIntensity(ls) ==
    IF ls = <<>> THEN Q(0) ELSE QAdd(Head(ls).intensity, SumIntensity(Tail(ls)))

\* Component-wise minimum / maximum of the positions of a non-empty set of
\* lights given by their 0-based indices.
RECURSIVE MinOver(_, _)
MinOver(idx, c) ==
    LET i == CHOOSE x \in idx : TRUE
        v == lights[i + 1].position[c]
    IN  IF idx = {i} THEN v ELSE QMin(v, MinOver(idx \ {i}, c))

RECURSIVE MaxOver(_, _)
MaxOver(idx, c) ==
    LET i == CHOOSE x \in idx : TRUE
        v == lights[i + 1].position[c]
    IN  IF idx = {i} THEN v ELSE QMax(v, MaxOver(idx \ {i}, c))

LightsUnder(h, n) == { h[x].lightIndex : x \in LeavesUnder(h, n) }

Half == <<1, 2>>

\* ─── C1 ─────────────────────────────────────────────────────────────────
\* C1: whichever builder was called, a returned tree over N >= 1 lights has
\* exactly N leaves and N - 1 internal nodes, and each of its nodes has
\* either no child or both children.
C1_FullBinaryTree ==
    Built =>
        /\ Len(lights) >= 1
        /\ LeafVisits(heap, root) = Len(lights)
        /\ InternalVisits(heap, root) = Len(lights) - 1
        /\ Cardinality(Descendants(heap, root)) = 2 * Len(lights) - 1
        /\ \A n \in Descendants(heap, root) :
               (heap[n].left = NULL) <=> (heap[n].right = NULL)

C1_Witness ==
    /\ Built
    /\ method = "median"
    /\ Len(lights) = 3
    /\ InternalVisits(heap, root) = 2

\* ─── C2 ─────────────────────────────────────────────────────────────────
\* C2: a 'spatial' KD-tree build of a non-empty light list ends by returning
\* a tree, also when a bucket of the midpoint partition is empty (lights at
\* the same position).
C2_SpatialReturnsTree ==
    (pc = "done" /\ method = "spatial" /\ ~NoLights) => result = "tree"

\* ─── C3 ─────────────────────────────────────────────────────────────────
\* C3: in a returned tree each input index 0..N-1 is the lightIndex of
\* exactly one leaf, whose representative is the light of that index, and
\* every internal node has lightIndex -1.
C3_LeafPerLight ==
    Built =>
        /\ \A i \in 0..(Len(lights) - 1) :
               /\ Cardinality({ x \in LeavesUnder(heap, root) :
                                    heap[x].lightIndex = i }) = 1
               /\ \A x \in LeavesUnder(heap, root) :
                      heap[x].lightIndex = i =>
                          /\ heap[x].representative.position = lights[i + 1].position
                          /\ heap[x].representative.intensity = lights[i + 1].intensity
                          /\ heap[x].representative.color = lights[i + 1].color
        /\ \A x \in LeavesUnder(heap, root) :
               heap[x].lightIndex \in 0..(Len(lights) - 1)
        /\ \A n \in Descendants(heap, root) \ LeavesUnder(heap, root) :
               heap[n].lightIndex = -1

C3_Witness ==
    /\ Built
    /\ Len(lights) = 3
    /\ \E x \in LeavesUnder(heap, root) : heap[x].lightIndex = 2
    /\ heap[root].lightIndex = -1

\* ─── C4 ─────────────────────────────────────────────────────────────────
\* C4: in a returned tree every internal node's totalIntensity and lightCount
\* are the sums of its children's, so the root holds the sum of the input
\* intensities and the count N.
C4_AggregateConservation ==
    Built =>
        /\ \A n \in Descendants(heap, root) :
               ~IsLeaf(heap, n) =>
                   /\ heap[n].totalIntensity =
                          QAdd(heap[heap[n].left].totalIntensity,
                               heap[heap[n].right].totalIntensity)
                   /\ heap[n].lightCount =
                          heap[heap[n].left].lightCount + heap[heap[n].right].lightCount
        /\ heap[root].totalIntensity = SumIntensity(lights)
        /\ heap[root].lightCount = Len(lights)

C4_Witness ==
    /\ Built
    /\ method = "brute"
    /\ heap[root].lightCount = 3
    /\ heap[root].totalIntensity = Q(4)

\* ─── C5 ─────────────────────────────────────────────────────────────────
\* C5: in a returned tree each node's aabb is the component-wise min/max of
\* the positions of the leaf lights of its subtree (so it contains them),
\* and a leaf's aabb has min = max = its light's position.
C5_BoundingBoxContainment ==
    Built =>
        \A n \in Descendants(heap, root) :
            /\ \A c \in 1..3 :
                   /\ heap[n].aabb.min[c] = MinOver(LightsUnder(heap, n), c)
                   /\ heap[n].aabb.max[c] = MaxOver(LightsUnder(heap, n), c)
                   /\ \A i \in LightsUnder(heap, n) :
                          /\ QLe(heap[n].aabb.min[c], lights[i + 1].position[c])
                          /\ QLe(lights[i + 1].position[c], heap[n].aabb.max[c])
            /\ IsLeaf(heap, n) =>
                   /\ heap[n].aabb.min = lights[heap[n].lightIndex + 1].position
                   /\ heap[n].aabb.max = lights[heap[n].lightIndex + 1].position

C5_Witness ==
    /\ Built
    /\ Len(lights) = 3
    /\ heap[root].aabb.min # heap[root].aabb.max
    /\ \E n \in Descendants(heap, root) :
           /\ n # root
           /\ ~IsLeaf(heap, n)
           /\ heap[n].aabb # heap[root].aabb

\* ─── C6 ─────────────────────────────────────────────────────────────────
\* C6: in a returned tree the root has depth 0 and both children of every
\* internal node have the node's depth plus one.
C6_DepthMonotonicity ==
    Built =>
        /\ heap[root].depth = 0
        /\ \A n \in Descendants(heap, root) :
               ~IsLeaf(heap, n) =>
                   /\ heap[heap[n].left].depth = heap[n].depth + 1
                   /\ heap[heap[n].right].depth = heap[n].depth + 1

C6_Witness ==
    /\ Built
    /\ method = "spatial"
    /\ \E n \in Descendants(heap, root) : heap[n].depth = 2

\* ─── C7 ─────────────────────────────────────────────────────────────────
\* C7: an internal node built from two children of total intensity zero has
\* the equal-weight (50/50) average of the children's representative
\* position and color, in the brute-force and in the KD-tree builder.
C7_EqualWeightFallback ==
    Built =>
        \A n \in Descendants(heap, root) :
            (/\ ~IsLeaf(heap, n)
             /\ heap[heap[n].left].totalIntensity = Q(0)
             /\ heap[heap[n].right].totalIntensity = Q(0)) =>
                /\ heap[n].representative.position =
                       Weighted(heap[heap[n].left].representative.position, Half,
                                heap[heap[n].right].representative.position, Half)
                /\ heap[n].representative.color =
                       Weighted(heap[heap[n].left].representative.color, Half,
                                heap[heap[n].right].representative.color, Half)

\* ─── C8 ─────────────────────────────────────────────────────────────────
\* C8: for an empty or missing light list every builder returns null, and
\* only then; on null getTreeMaxDepth returns -1 and getNodesAtDepth(null, 0)
\* returns the empty sequence.
C8_EmptyInput ==
    /\ (pc = "done" /\ NoLights) => (result = "null" /\ root = NULL)
    /\ (pc = "done" /\ result = "null") => NoLights
    /\ (Returned /\ root = NULL /\ query.op = "getTreeMaxDepth") => query.out = -1
    /\ (Returned /\ root = NULL /\ query.op = "getNodesAtDepth" /\ query.arg = 0)
           => query.out = <<>>

C8_Witness ==
    /\ pc = "done"
    /\ ~lightsGiven
    /\ result = "null"
    /\ query.op = "getTreeMaxDepth"
    /\ query.out = -1

\* ─── C9 ─────────────────────────────────────────────────────────────────
\* C9: for a returned tree and 0 <= D <= getTreeMaxDepth(tree), the nodes of
\* getNodesAtDepth(tree, D) have pairwise disjoint leaf sets that together
\* hold every leaf of the tree, and each of them has depth D or is a leaf of
\* depth less than D.
C9_DepthSlicePartition ==
    (/\ Built
     /\ query.op = "getNodesAtDepth"
     /\ query.arg <= getTreeMaxDepth(heap, root)) =>
        LET out == query.out
        IN  /\ \A i, j \in 1..Len(out) :
                   i # j => LeavesUnder(heap, out[i]) \cap LeavesUnder(heap, out[j]) = {}
            /\ UNION { LeavesUnder(heap, out[i]) : i \in 1..Len(out) }
                   = LeavesUnder(heap, root)
            /\ \A i \in 1..Len(out) :
                   \/ heap[out[i]].depth = query.arg
                   \/ IsLeaf(heap, out[i]) /\ heap[out[i]].depth < query.arg

C9_Witness ==
    /\ Built
    /\ query.op = "getNodesAtDepth"
    /\ query.arg = 2
    /\ getTreeMaxDepth(heap, root) = 2
    /\ \E i \in 1..Len(query.out) :
           IsLeaf(heap, query.out[i]) /\ heap[query.out[i]].depth = 1

\* ─── C10 ────────────────────────────────────────────────────────────────
\* C10: flattenTreeForGPU gives the root index 0 and every node one index of
\* 0..nodeCount-1 in breadth-first order; slot 11 (15) of a record is -1
\* exactly when the node has no left (right) child, which is exactly when it
\* is a leaf, and is otherwise the child's index, greater than the node's own
\* and less than nodeCount.
C10_FlattenIndices ==
    (Built /\ query.op = "flattenTreeForGPU") =>
        LET out == query.out
            ord == out.ordered
            Slot(i, o) == out.data[i * FLOATS_PER_GPU_NODE + o + 1]
            ChildOk(i, o, child) ==
                /\ (Slot(i, o) = Q(-1)) <=> IsLeaf(heap, ord[i + 1])
                /\ ~IsLeaf(heap, ord[i + 1]) =>
                       /\ Slot(i, o)[2] = 1
                       /\ Slot(i, o)[1] > i
                       /\ Slot(i, o)[1] < out.nodeCount
                       /\ ord[Slot(i, o)[1] + 1] = child
        IN  /\ out.nodeCount = Cardinality(Descendants(heap, root))
            /\ Len(ord) = out.nodeCount
            /\ Len(out.data) = out.nodeCount * FLOATS_PER_GPU_NODE
            /\ ord[1] = root
            /\ { ord[i] : i \in 1..Len(ord) } = Descendants(heap, root)
            /\ \A i, j \in 1..Len(ord) :
                   i < j => heap[ord[i]].depth <= heap[ord[j]].depth
            /\ \A i \in 0..(out.nodeCount - 1) :
                   /\ ChildOk(i, 11, heap[ord[i + 1]].left)
                   /\ ChildOk(i, 15, heap[ord[i + 1]].right)

C10_Witness ==
    /\ Built
    /\ query.op = "flattenTreeForGPU"
    /\ query.out.nodeCount = 5
    /\ query.out.data[11 + 1] = Q(1)
    /\ query.out.data[15 + 1] = Q(2)
    /\ \E i \in 1..2 : query.out.data[i * FLOATS_PER_GPU_NODE + 11 + 1] = Q(3)


\* ─── C11 ────────────────────────────────────────────────────────────────
F32Vec(v) == <<ToF32(v[1]), ToF32(v[2]), ToF32(v[3])>>

\* The record parsed at index i names the children of node n by their
\* indices in ord.
SameChildren(ord, g, n) ==
    /\ IF n.left = NULL THEN g.leftChild = Q(-1)
       ELSE /\ g.leftChild[2] = 1
            /\ g.leftChild[1] \in 0..(Len(ord) - 1)
            /\ ord[g.leftChild[1] + 1] = n.left
    /\ IF n.right = NULL THEN g.rightChild = Q(-1)
       ELSE /\ g.rightChild[2] = 1
            /\ g.rightChild[1] \in 0..(Len(ord) - 1)
            /\ ord[g.rightChild[1] + 1] = n.right

\* C11 as written: flattening a returned tree and re-parsing the records at
\* the documented offsets gives back every node's position, intensity,
\* color, lightCount and aabb exactly, and the same parent-to-child
\* structure.
C11_RoundTripExact ==
    (Built /\ query.op = "flattenTreeForGPU") =>
        \A i \in 0..(query.out.nodeCount - 1) :
            LET n == heap[query.out.ordered[i + 1]]
                g == parseGPUNode(query.out.data, i)
            IN  /\ g.position = n.representative.position
                /\ g.intensity = n.totalIntensity
                /\ g.color = n.representative.color
                /\ g.lightCount = Q(n.lightCount)
                /\ g.aabbMin = n.aabb.min
                /\ g.aabbMax = n.aabb.max
                /\ SameChildren(query.out.ordered, g, n)

\* C11 as amended: the re-parsed fields are the node's values rounded to
\* single precision (the slots are 32-bit floats, the node's numbers are
\* not), so a value is given back exactly when single precision holds it;
\* lightCount and the parent-to-child structure are given back exactly.
C11_RoundTripF32 ==
    (Built /\ query.op = "flattenTreeForGPU") =>
        \A i \in 0..(query.out.nodeCount - 1) :
            LET n == heap[query.out.ordered[i + 1]]
                g == parseGPUNode(query.out.data, i)
            IN  /\ g.position = F32Vec(n.representative.position)
                /\ g.intensity = ToF32(n.totalIntensity)
                /\ g.color = F32Vec(n.representative.color)
                /\ g.lightCount = Q(n.lightCount)
                /\ g.aabbMin = F32Vec(n.aabb.min)
                /\ g.aabbMax = F32Vec(n.aabb.max)
                /\ \A c \in 1..3 :
                       IsPow2(n.representative.position[c][2]) =>
                           g.position[c] = n.representative.position[c]
                /\ SameChildren(query.out.ordered, g, n)

\* A flattened tree with a representative that single precision does not
\* hold, and one it does.
C11_Witness ==
    /\ Built
    /\ query.op = "flattenTreeForGPU"
    /\ query.out.nodeCount >= 3
    /\ parseGPUNode(query.out.data, 0).position # heap[root].representative.position
    /\ parseGPUNode(query.out.data, 1).position
           = heap[query.out.ordered[2]].representative.position


\* ─── C15 ────────────────────────────────────────────────────────────────
\* C15: for a single light every builder returns one leaf without children,
\* of depth 0, lightCount 1, lightIndex 0, with the light's position and
\* intensity, and getTreeMaxDepth of that tree is 0.
C15_SingleLight ==
    (pc = "done" /\ lightsGiven /\ Len(lights) = 1) =>
        /\ result = "tree"
        /\ root # NULL
        /\ Descendants(heap, root) = {root}
        /\ heap[root].left = NULL
        /\ heap[root].right = NULL
        /\ heap[root].depth = 0
        /\ heap[root].lightCount = 1
        /\ heap[root].lightIndex = 0
        /\ heap[root].representative.position = lights[1].position
        /\ heap[root].totalIntensity = lights[1].intensity
        /\ query.op = "getTreeMaxDepth" => query.out = 0

C15_Witness ==
    /\ pc = "done"
    /\ Len(lights) = 1
    /\ method = "spatial"
    /\ result = "tree"
    /\ query.op = "getTreeMaxDepth"
    /\ query.out = 0


SpecSquare == InitSquare /\ [][Next]_vars

\* ─── C16 ────────────────────────────────────────────────────────────────
\* C16: for the four lights of intensity 1 at (0,0,0), (1,0,0), (0,0,1),
\* (1,0,1), the brute-force builder returns a tree with 3 internal nodes,
\* root totalIntensity 4, root lightCount 4 and max depth at most 2: the
\* root's children are two pairs of lights at distance 1.
C16_SquareExample ==
    (Built /\ method = "brute") =>
        /\ InternalVisits(heap, root) = 3
        /\ LeafVisits(heap, root) = 4
        /\ heap[root].totalIntensity = Q(4)
        /\ heap[root].lightCount = 4
        /\ getTreeMaxDepth(heap, root) <= 2
        /\ \A c \in {heap[root].left, heap[root].right} :
               /\ c # NULL
               /\ heap[c].lightCount = 2
               /\ vec3Dist2(heap[heap[c].left].representative.position,
                            heap[heap[c].right].representative.position) = Q(1)

C16_Witness ==
    /\ Built
    /\ method = "brute"
    /\ lights = SquareLights
    /\ getTreeMaxDepth(heap, root) = 2
    /\ heap[root].lightCount = 4

\* ─── C17 ────────────────────────────────────────────────────────────────
PairCost(a, b) == mergeCost(heap[nodes[a]], heap[nodes[b]])

\* s without its positions i < j.
Without(s, i, j) ==
    [k \in 1..(Len(s) - 2) |->
        s[IF k < i THEN k ELSE IF k + 1 < j THEN k + 1 ELSE k + 2]]

\* C17: every iteration of the brute-force loop merges a pair (i, j), i < j,
\* of minimal merge cost over all pairs of the work list, the first such
\* pair in ascending scan order; the two nodes leave the list and the merged
\* node is appended at its end.
C17_MinimalPairMerged ==
    [][ (pc = "merging" /\ Len(nodes) > 1) =>
            \E i, j \in 1..Len(nodes) :
                /\ i < j
                /\ Len(heap') = Len(heap) + 1
                /\ heap'[Len(heap')].left = nodes[i]
                /\ heap'[Len(heap')].right = nodes[j]
                /\ \A a, b \in 1..Len(nodes) :
                       a < b => QLe(PairCost(i, j), PairCost(a, b))
                /\ \A a, b \in 1..Len(nodes) :
                       (a < b /\ (a < i \/ (a = i /\ b < j)))
                           => QLt(PairCost(i, j), PairCost(a, b))
                /\ nodes' = Append(Without(nodes, i, j), Len(heap'))
      ]_vars

\* A merge has been made among three leaves of which two pairs had the same
\* minimal cost.
C17_Witness ==
    /\ pc = "merging"
    /\ Len(lights) = 3
    /\ Len(nodes) = 2
    /\ Len(heap) = 4
    /\ \E a, b \in 1..3 :
           /\ a < b
           /\ <<a, b>> # <<heap[4].left, heap[4].right>>
           /\ mergeCost(heap[a], heap[b])
                  = mergeCost(heap[heap[4].left], heap[heap[4].right])
    /\ \E a, b \in 1..3 :
           /\ a < b
           /\ QLt(mergeCost(heap[heap[4].left], heap[heap[4].right]),
                  mergeCost(heap[a], heap[b]))


\* ─── C18 ────────────────────────────────────────────────────────────────
Extent(box, a) == QSub(box.max[a + 1], box.min[a + 1])

\* The axis (0-based) of largest extent of a box, the earliest on a tie.
FirstLongestAxis(box) ==
    CHOOSE a \in 0..2 :
        \A b \in 0..2 :
            /\ QLe(Extent(box, b), Extent(box, a))
            /\ b < a => QLt(Extent(box, b), Extent(box, a))

\* Every light under the left child is at or before every light under the
\* right child along axis a.
SplitAlong(n, a) ==
    \A x \in LightsUnder(heap, heap[n].left) :
        \A y \in LightsUnder(heap, heap[n].right) :
            QLe(lights[x + 1].position[a + 1], lights[y + 1].position[a + 1])

\* C18: each internal node of a KD-tree (the subset of two or more lights
\* under it) is split along the axis of largest extent of the subset's
\* bounding box, the earlier axis in the order x, y, z when extents tie.
C18_SplitAxis ==
    (Built /\ method \in {"median", "spatial"}) =>
        \A n \in Descendants(heap, root) :
            ~IsLeaf(heap, n) =>
                /\ longestAxis(heap[n].aabb.min, heap[n].aabb.max)
                       = FirstLongestAxis(heap[n].aabb)
                /\ SplitAlong(n, FirstLongestAxis(heap[n].aabb))
                /\ method = "spatial" =>
                       LET a == FirstLongestAxis(heap[n].aabb)
                           mid == QDiv(QAdd(heap[n].aabb.min[a + 1],
                                            heap[n].aabb.max[a + 1]), Q(2))
                       IN  /\ \A x \in LightsUnder(heap, heap[n].left) :
                                  QLt(lights[x + 1].position[a + 1], mid)
                           /\ \A y \in LightsUnder(heap, heap[n].right) :
                                  QLe(mid, lights[y + 1].position[a + 1])

\* A KD-tree over three lights whose root box has equal largest extents
\* along x and y, so that the tie is decided, and the two sides of the root
\* differ along x.
C18_Witness ==
    /\ Built
    /\ method = "median"
    /\ Len(lights) = 3
    /\ Extent(heap[root].aabb, 0) = Extent(heap[root].aabb, 1)
    /\ QLt(Extent(heap[root].aabb, 2), Extent(heap[root].aabb, 0))
    /\ ~IsLeaf(heap, root)
    /\ \E x \in LightsUnder(heap, heap[root].left) :
           \E y \in LightsUnder(heap, heap[root].right) :
               QLt(lights[x + 1].position[1], lights[y + 1].position[1])

\* ─── C19 ────────────────────────────────────────────────────────────────
RECURSIVE CeilLog2From(_, _)
CeilLog2From(n, k) == IF Pow2(k) >= n THEN k ELSE CeilLog2From(n, k + 1)

CeilLog2(n) == CeilLog2From(n, 0)

\* C19: in 'median' mode every internal node over n lights has floor(n/2)
\* lights on the left and n - floor(n/2) on the right, the left lights are
\* at or before the right lights along the split axis, and the max depth of
\* the tree is ceil(log2(N)).
C19_MedianBalanced ==
    (Built /\ method = "median") =>
        /\ \A n \in Descendants(heap, root) :
               ~IsLeaf(heap, n) =>
                   /\ heap[heap[n].left].lightCount = heap[n].lightCount \div 2
                   /\ heap[heap[n].right].lightCount
                          = heap[n].lightCount - (heap[n].lightCount \div 2)
                   /\ Cardinality(LightsUnder(heap, heap[n].left))
                          = heap[n].lightCount \div 2
                   /\ SplitAlong(n, longestAxis(heap[n].aabb.min, heap[n].aabb.max))
        /\ getTreeMaxDepth(heap, root) = CeilLog2(Len(lights))

C19_Witness ==
    /\ Built
    /\ method = "median"
    /\ Len(lights) = 3
    /\ heap[heap[root].left].lightCount = 1
    /\ heap[heap[root].right].lightCount = 2
    /\ getTreeMaxDepth(heap, root) = 2


\* ─── Vocabulary of the cut ──────────────────────────────────────────────
\* The cut entries in use, and whether the node of entry c is internal.
CutEntries == 0..(cutSize - 1)

NodeIsLeaf(node) == i32(node.leftChild) < 0 /\ i32(node.rightChild) < 0

EntryIsInternal(c) == ~NodeIsLeaf(lightcutTree[cutIdx[c] + 1])

\* ─── C12 ────────────────────────────────────────────────────────────────
\* C12: for a flattened tree of at least one node and every maxCutSize (0
\* included), computeRadianceLightcuts shades at most maxCutSize entries.
C12_ShadedWithinMaxCutSize ==
    (pcCut = "returned" /\ lightcutNodeCount >= 1) =>
        Len(radiance.terms) <= maxCutSize

\* ─── C13 ────────────────────────────────────────────────────────────────
\* C13: during refinement the cut size never exceeds the capacity 32 of the
\* cut arrays and no store goes to an index >= 32, whatever maxCutSize is
\* (a larger one is clamped to 32).
C13_CutWithinCapacity ==
    /\ cutSize <= CUT_ARRAY_SIZE
    /\ written \subseteq 0..(CUT_ARRAY_SIZE - 1)
    /\ maxCut <= CUT_ARRAY_SIZE

\* A refinement with maxCutSize above the capacity that filled the arrays
\* to their last element while internal nodes were left in the cut.
C13_Witness ==
    /\ pcCut = "shade"
    /\ maxCutSize > CUT_ARRAY_SIZE
    /\ cutSize = CUT_ARRAY_SIZE
    /\ (CUT_ARRAY_SIZE - 1) \in written
    /\ \E c \in CutEntries : EntryIsInternal(c)

\* ─── C14 ────────────────────────────────────────────────────────────────
\* C14: with lightcutNodeCount = 0 computeRadianceLightcuts returns zero
\* without seeding the cut or reading a tree record, and the flattening of
\* the null tree reports nodeCount 0.
C14_EmptyTreeZero ==
    /\ (pcCut # "idle" /\ pc = "done" /\ root = NULL) => lightcutNodeCount = 0
    /\ (pcCut # "idle" /\ lightcutNodeCount = 0) =>
           /\ cutSize = 0
           /\ cutIdx = ZeroArray
           /\ cutError = ZeroArray
           /\ written = {}
           /\ treeReads = {}
           /\ pcCut \in {"uploaded", "entry", "returned"}
           /\ pcCut = "returned" => radiance = [kind |-> "zero"]

C14_Witness ==
    /\ pcCut = "returned"
    /\ result = "null"
    /\ lightcutNodeCount = 0
    /\ radiance = [kind |-> "zero"]

\* ─── C20 ────────────────────────────────────────────────────────────────
\* The first cut entry holding the largest cached error bound.
FirstWorst ==
    CHOOSE c \in CutEntries :
        \A d \in CutEntries :
            /\ cutError[d] <= cutError[c]
            /\ d < c => cutError[d] < cutError[c]

PositiveBounds ==
    \A i \in 1..Len(lightcutTree) : ~ZeroBound(lightcutTree[i]) => boundAt[i] > 0

\* C22: when the refinement of a built tree has ended, the cut has reached
\* the maximum cut size or every entry of the cut is a leaf.
C22_MaxOrAllLeaves ==
    (pcCut \in {"shade", "returned"} /\ result = "tree" /\ PositiveBounds) =>
        \/ cutSize >= maxCut
        \/ \A c \in CutEntries : ~EntryIsInternal(c)

\* ─── C27 ────────────────────────────────────────────────────────────────
\* The records of the buffer reached from record i (0-based), i included.
RECURSIVE BufUnder(_, _)
BufUnder(tree, i) ==
    LET l == i32(tree[i + 1].leftChild)
        r == i32(tree[i + 1].rightChild)
    IN  {i} \cup (IF l >= 0 THEN BufUnder(tree, l) ELSE {})
            \cup (IF r >= 0 THEN BufUnder(tree, r) ELSE {})

BufLeaves(tree) == { i \in BufUnder(tree, 0) : NodeIsLeaf(tree[i + 1]) }

\* The sum of a field (a rational) over the first n cut entries.
RECURSIVE CutSum(_, _)
CutSum(field, n) ==
    IF n = 0 THEN Q(0)
    ELSE QAdd(CutSum(field, n - 1), lightcutTree[cutIdx[n - 1] + 1][field])

LoopMustEnd ==
    \/ cutSize >= maxCut
    \/ iter >= MAX_REFINE_ITER
    \/ NodeIsLeaf(lightcutTree[cutIdx[selectWorst(cutError, cutSize)] + 1])

\* C21: the refinement loop ends for every buffer and every maxCutSize: an
\* invocation that has started returns, the loop is left exactly when the
\* cut size has reached min(maxCutSize, 32), the worst entry is a leaf or 256
\* iterations have run, and for a built tree it is left before the
\* iteration bound.
C21_RefinementTerminates ==
    /\ (pcCut = "entry") ~> (pcCut = "returned")
    /\ [](iter <= MAX_REFINE_ITER)
    /\ []((pcCut = "shade") => LoopMustEnd)
    /\ []((pcCut = "shade" /\ result = "tree") => iter < MAX_REFINE_ITER)
    /\ [][pcCut = "loop" => (LoopMustEnd <=> pcCut' = "shade")]_vars

\* An invocation on a crafted buffer that returned after the iteration
\* bound was reached, the cut still below maxCut.
C21_Witness ==
    /\ pcCut = "returned"
    /\ iter = MAX_REFINE_ITER
    /\ cutSize < maxCut

\* ─── C23 ────────────────────────────────────────────────────────────────
\* C23: when the selected worst node has a right child and no left child,
\* the slot keeps its node, its cached error becomes zero, and the slot is
\* not the one selected by the next iteration.
C23_ZeroedSlotNotReselected ==
    [][ LET w == FirstWorst
            node == lightcutTree[cutIdx[w] + 1]
        IN  ( /\ pcCut = "loop"
              /\ ~LoopMustEnd
              /\ i32(node.leftChild) < 0
              /\ i32(node.rightChild) >= 0 ) =>
                /\ cutIdx'[w] = cutIdx[w]
                /\ cutError'[w] = 0
                /\ ~( /\ pcCut' = "loop"
                      /\ iter' < MAX_REFINE_ITER
                      /\ cutSize' < maxCut
                      /\ selectWorst(cutError', cutSize') = w )
      ]_vars

\* ─── C24 ────────────────────────────────────────────────────────────────
\* C24: an iteration places in the cut only child indices that are below
\* nodeCount and greater than the index of the record that holds them.
C24_RejectsCorruptChildren ==
    [][ LET w == FirstWorst
            holder == cutIdx[w]
            node == lightcutTree[holder + 1]
            validChild(i) == i > holder /\ i < lightcutNodeCount
        IN  (pcCut = "loop" /\ ~LoopMustEnd) =>
                /\ (i32(node.leftChild) >= 0 /\ cutIdx'[w] = i32(node.leftChild))
                       => validChild(i32(node.leftChild))
                /\ cutSize' > cutSize => validChild(cutIdx'[cutSize])
      ]_vars


\* ─── C28 ────────────────────────────────────────────────────────────────
\* C28: in a tree returned by any builder from lights of non-negative
\* intensity, the representative position of each node lies inside the
\* node's aabb, component by component.
NonNegativeIntensities ==
    \A i \in 1..Len(lights) : QLe(Q(0), lights[i].intensity)

C28_RepresentativeInsideBox ==
    (Built /\ NonNegativeIntensities) =>
        \A n \in Descendants(heap, root) :
            \A c \in 1..3 :
                /\ QLe(heap[n].aabb.min[c], heap[n].representative.position[c])
                /\ QLe(heap[n].representative.position[c], heap[n].aabb.max[c])


\* ─── C25 ────────────────────────────────────────────────────────────────
\* The trees below a of heap h1 and below b of heap h2 have the same shape
\* and, node by node, the same field values.
RECURSIVE SameTree(_, _, _, _)
SameTree(h1, a, h2, b) ==
    IF a = NULL \/ b = NULL THEN a = b
    ELSE /\ [h1[a] EXCEPT !.left = NULL, !.right = NULL]
                = [h2[b] EXCEPT !.left = NULL, !.right = NULL]
         /\ SameTree(h1, h1[a].left, h2, h2[b].left)
         /\ SameTree(h1, h1[a].right, h2, h2[b].right)

\* The builder has been run twice on the same lights.
SameRunTwice ==
    /\ pc = "done"
    /\ previous # NoPrevious
    /\ previous.method = method
    /\ previous.lights = lights

C26_TreeImmutableRebuiltWhole ==
    /\ [][(pc = "done" /\ pc' = "done" /\ query' # query) =>
              (heap' = heap /\ root' = root)]_vars
    /\ [](previous # NoPrevious =>
              \A n \in 1..Len(previous.heap) : heap[n] = previous.heap[n])
    /\ []((previous # NoPrevious /\ pc = "done" /\ result = "tree") =>
              /\ root > Len(previous.heap)
              /\ Descendants(heap, root)
                     \cap Descendants(previous.heap, previous.root) = {})

C26_Witness ==
    /\ previous # NoPrevious
    /\ previous.result = "tree"
    /\ pc = "done"
    /\ result = "tree"
    /\ Len(lights) = 3
    /\ \E n \in Descendants(previous.heap, previous.root) :
           previous.heap[n].depth = 2
    /\ query # NoQuery
    /\ query.op = "flattenTreeForGPU"

C30_OneRenderInFlight ==
    /\ InFlight(awaiting) <= 1
    /\ InFlight(awaiting) >= 1 => isRendering

=============================================================================
